---- MODULE Spec2Model ----
(***************************************************************************)
(* Model of static/js/index.js: the use-of-force dashboard's page script.  *)
(*                                                                         *)
(* Two specifications share this module:                                   *)
(*   TallySpec  the pure tally functions getRaceData / getSexData applied  *)
(*              to every case list up to MaxLen records;                   *)
(*   Spec       the page: main(), the apply-settings click handler and the *)
(*              fetches it dispatches, interleaved as the browser's event  *)
(*              loop allows.                                               *)
(*                                                                         *)
(* Values.  An optional JSON value (a field that may be missing or null)   *)
(* is a sequence of length <= 1: << >> is missing/null, <<v>> is the value *)
(* v.  A JavaScript object used as a dictionary (raceCount, sexCount) is   *)
(* the sequence of its own properties in creation order.                   *)
(***************************************************************************)
EXTENDS Integers, Sequences, FiniteSets, TLC

\* Longest case list given to the tally functions in TallySpec.
MaxLen == 3

(***************************************************************************)
(* Case records (the response of GET /api/v1.0/year/{year}).               *)
(***************************************************************************)

\* Category labels the model feeds in.  "1" and "2" are canonical array
\* indices as property keys, "__proto__" is the accessor on Object.prototype.
RaceValues == { << >>, <<"">>, <<"White">>, <<"Black">>, <<"2">>, <<"1">>, <<"__proto__">> }
SexValues == { << >>, <<"Male">>, <<"Female">> }

\* caseInfo["case"] with a force and a force.subject.
SubjectCase(race, sex, lat, lng) ==
    [hasForce |-> TRUE, hasSubject |-> TRUE, race |-> race, sex |-> sex,
     latitude |-> lat, longitude |-> lng]

\* caseInfo["case"] whose force is missing or null.
NoForceCase(lat, lng) ==
    [hasForce |-> FALSE, hasSubject |-> FALSE, race |-> << >>, sex |-> << >>,
     latitude |-> lat, longitude |-> lng]

\* caseInfo["case"] with a force whose subject is missing or null.
NoSubjectCase(lat, lng) ==
    [hasForce |-> TRUE, hasSubject |-> FALSE, race |-> << >>, sex |-> << >>,
     latitude |-> lat, longitude |-> lng]

\* JavaScript truthiness of an optional string: missing, null and "" are falsy.
TruthyString(v) == v # << >> /\ v[1] # ""

\* JavaScript truthiness of an optional number: missing, null and 0 are falsy.
TruthyNumber(v) == v # << >> /\ v[1] # 0

(***************************************************************************)
(* Property keys of a plain object.                                        *)
(***************************************************************************)

\* The numeric value of the property keys that are canonical array indices.
ArrayIndexValue == ("1" :> 1) @@ ("2" :> 2)

IsArrayIndex(key) == key \in DOMAIN ArrayIndexValue

HasOwn(obj, key) == \E i \in 1..Len(obj) : obj[i].key = key

\* obj[key] > 0: an own count is >= 1; a missing key reads undefined and an
\* inherited one (constructor, __proto__) reads an object, both compare
\* false with 0.
CountIsPositive(obj, key) == HasOwn(obj, key)

\* obj[key]++ on an own property.
Increment(obj, key) ==
    [i \in 1..Len(obj) |->
        IF obj[i].key = key THEN [key |-> key, count |-> obj[i].count + 1] ELSE obj[i]]

\* obj[key] = 1 for a key that is not an own property: creates the property,
\* except for "__proto__", whose inherited setter ignores a number.
AssignOne(obj, key) ==
    IF key = "__proto__" THEN obj ELSE Append(obj, [key |-> key, count |-> 1])

\* Mutant of ObjectEntries: the properties in creation order, whatever the keys.
ObjectEntriesInCreationOrder(obj) == obj

\* Object.entries: array-index keys in ascending numeric order, then the
\* other string keys in creation order.
ObjectEntries(obj) ==
    SortSeq(SelectSeq(obj, LAMBDA p : IsArrayIndex(p.key)),
            LAMBDA a, b : ArrayIndexValue[a.key] < ArrayIndexValue[b.key])
    \o SelectSeq(obj, LAMBDA p : ~IsArrayIndex(p.key))

(***************************************************************************)
(* The tally scan of getRaceData / getSexData.                             *)
(***************************************************************************)

\* if (value) { if (count[value] > 0) count[value]++; else count[value] = 1; }
CountValue(obj, value) ==
    IF ~TruthyString(value) THEN obj
    ELSE IF CountIsPositive(obj, value[1]) THEN Increment(obj, value[1])
    ELSE AssignOne(obj, value[1])

\* The scan writes the value it reads into the implicit global variable race
\* (sex), which outlives the call.  A scan state s is the counts so far,
\* s.obj, and what the global holds, s.global.

\* Mutant of ScanStep: the value is counted before the global is assigned, so
\* what is counted is the value the global held before.
ScanStepStaleRead(s, value) ==
    [obj |-> CountValue(s.obj, s.global), global |-> value]

\* race = subject["race"]; if (race) { ... raceCount[race] ... }
ScanStep(s, value) ==
    [obj |-> CountValue(s.obj, value), global |-> value]

\* Mutant of ScanCases: a record without force or subject is skipped and the
\* loop goes on.
RECURSIVE ScanCasesSkipping(_, _, _, _)
ScanCasesSkipping(cases, field, i, s) ==
    IF i > Len(cases) THEN s
    ELSE IF ~cases[i].hasForce \/ ~cases[i].hasSubject
    THEN ScanCasesSkipping(cases, field, i + 1, s)
    ELSE ScanCasesSkipping(cases, field, i + 1, ScanStep(s, cases[i][field]))

\* The for-of loop from record i on, in scan state s.  A record without force
\* or without subject breaks out of the loop.
RECURSIVE ScanCases(_, _, _, _)
ScanCases(cases, field, i, s) ==
    IF i > Len(cases) THEN s
    ELSE IF ~cases[i].hasForce THEN s
    ELSE IF ~cases[i].hasSubject THEN s
    ELSE ScanCases(cases, field, i + 1, ScanStep(s, cases[i][field]))

\* A call of getRaceData on a page whose global race holds window: what it
\* returns and what the global holds afterwards.
getRaceDataCall(cases, window) ==
    LET scan == ScanCases(cases, "race", 1, [obj |-> << >>, global |-> window])
        entries == ObjectEntries(scan.obj)
    IN  [result |-> [i \in 1..Len(entries) |->
                        [race |-> entries[i].key, count |-> entries[i].count]],
         window |-> scan.global]

getSexDataCall(cases, window) ==
    LET scan == ScanCases(cases, "sex", 1, [obj |-> << >>, global |-> window])
        entries == ObjectEntries(scan.obj)
    IN  [result |-> [i \in 1..Len(entries) |->
                        [sex |-> entries[i].key, count |-> entries[i].count]],
         window |-> scan.global]

\* What getRaceData / getSexData return on a page where the global is not
\* assigned yet.  The page model uses these: it leaves the globals out.
getRaceData(cases) == getRaceDataCall(cases, << >>).result

getSexData(cases) == getSexDataCall(cases, << >>).result

(***************************************************************************)
(* The page: DOM elements, the map, the charts.                            *)
(***************************************************************************)
VARIABLES
    year,            \* state.year
    pieCharts,       \* state.pieCharts: the chart instances, in push order
    caseMarkers,     \* state.caseMarkers: a layer object
    mapLayers,       \* the layers state.map holds
    liveCharts,      \* chart instances created by am4core.create and not disposed
    hidden,          \* the elements carrying the CSS class "hidden"
    selectOptions,   \* the <option>s of #selectYear, in document order
    selectValue,     \* the value of #selectYear
    bound,           \* the click handler is bound to #buttonApplySettings
    mainPc,          \* where main() stands
    runs,            \* the invocations of onApplySettings, in click order
    unhandled,       \* the async functions whose promise rejected (0 is main)
    requests,        \* the GET requests for cases sent so far, in order
    lastStep,        \* the step taken last and what it was given
    lastSentinel     \* the run that last completed with the value "None"

VARIABLES
    tallyCases,      \* the case list of the current selection
    raceStats,       \* what getRaceData returned for it
    sexStats,        \* what getSexData returned for it
    tallyCalled,     \* the tally functions called for it
    windowRace,      \* the implicit global variable race
    windowSex        \* the implicit global variable sex

pageVars == <<year, pieCharts, caseMarkers, mapLayers, liveCharts, hidden,
              selectOptions, selectValue, bound, mainPc, runs, unhandled,
              requests, lastStep, lastSentinel>>

tallyVars == <<tallyCases, raceStats, sexStats, tallyCalled, windowRace, windowSex>>

VARIABLES
    markerCases,     \* the case list given to createCaseClustersMarkers
    markerLayer,     \* the layer it returned
    markerCalled     \* it has been called

markerVars == <<markerCases, markerLayer, markerCalled>>

vars == <<pageVars, tallyVars, markerVars>>

\* Apply-settings clicks in one behaviour.
MaxClicks == 2

\* The option that stands for "no selection".
Sentinel == "None"

\* What GET /api/v1.0/year answers: availableYears.
YearCatalogues == { <<"2019", "2020">> }

\* What GET /api/v1.0/year/{year} answers in the page model: no case, a case
\* with both categories, a case with a race only, a case without force (and
\* without coordinates), and two cases.
CaseResponses ==
    { << >>,
      << SubjectCase(<<"White">>, <<"Male">>, <<45>>, <<-93>>) >>,
      << SubjectCase(<<"Black">>, << >>, <<45>>, <<0>>) >>,
      << NoForceCase(<<45>>, <<-93>>) >>,
      << NoForceCase(<< >>, << >>), SubjectCase(<<"White">>, <<"Male">>, <<45>>, <<-93>>) >> }

\* The layer objects: the {} state.caseMarkers starts as, the street tile
\* layer, and the marker cluster group built for run req.
EmptyObject == [kind |-> "object", req |-> 0, markers |-> << >>]
StreetLayer == [kind |-> "tile", req |-> 0, markers |-> << >>]
ClusterLayers(layers) == { l \in layers : l.kind = "cluster" }

hideElements(elements, h) == h \cup elements
showElements(elements, h) == h \ elements

\* Mutant of hideLoading: the loading screen is left as it is.
hideLoadingLeavesShown(h) == h

hideLoading(h) == hideElements({"divLoading"}, h)
showLoading(h) == showElements({"divLoading"}, h)
hideChartRows(h) == hideElements({"divChartRowList"}, h)
showChartRows(h) == showElements({"divChartRowList"}, h)
showRacePieChartCard(h) == showElements({"divChartColRace"}, h)
showSexPieChartCard(h) == showElements({"divChartColSex"}, h)
hideRacePieChartCard(h) == hideElements({"divChartColRace"}, h)
hideSexPieChartCard(h) == hideElements({"divChartColSex"}, h)

\* Mutant of MarkersOfCase: a coordinate counts as given when it is not
\* null, so that 0 is a coordinate.
MarkersOfCaseNotNull(currentCase) ==
    IF currentCase.longitude # << >> /\ currentCase.latitude # << >>
    THEN << <<currentCase.latitude[1], currentCase.longitude[1]>> >>
    ELSE << >>

\* if (longitude && latitude) markers.addLayer(L.marker([latitude, longitude])):
\* the markers one case adds, each marker being its position.
MarkersOfCase(currentCase) ==
    IF TruthyNumber(currentCase.longitude) /\ TruthyNumber(currentCase.latitude)
    THEN << <<currentCase.latitude[1], currentCase.longitude[1]>> >>
    ELSE << >>

\* cases.forEach from case i on, with the markers added so far.
RECURSIVE AddMarkers(_, _, _)
AddMarkers(cases, i, markers) ==
    IF i > Len(cases) THEN markers
    ELSE AddMarkers(cases, i + 1, markers \o MarkersOfCase(cases[i]))

\* The marker cluster group built for run req.
createCaseClustersMarkers(cases, req) ==
    [kind |-> "cluster", req |-> req, markers |-> AddMarkers(cases, 1, << >>)]

\* am4core.create plus the chart's data: the instance built for run req.
\* The result is the returned chart, or the error thrown.
generateRacePieChart(cases, req) ==
    LET raceData == getRaceData(cases)
    IN  IF Len(raceData) > 0
        THEN [error |-> "none",
              chart |-> [req |-> req, dim |-> "race", data |-> getRaceData(cases)]]
        ELSE [error |-> "NoDataError",
              chart |-> [req |-> req, dim |-> "race", data |-> << >>]]

generateSexPieChart(cases, req) ==
    LET sexData == getSexData(cases)
    IN  IF Len(sexData) > 0
        THEN [error |-> "none",
              chart |-> [req |-> req, dim |-> "sex", data |-> getSexData(cases)]]
        ELSE [error |-> "NoDataError",
              chart |-> [req |-> req, dim |-> "sex", data |-> << >>]]

\* The page as generateAmCharts reads and writes it.
PageCharts(pc, lc, h) ==
    [pieCharts |-> pc, liveCharts |-> lc, hidden |-> h, noData |-> {}, thrown |-> FALSE]

\* One try/catch block of generateAmCharts on page p, for the result r of the
\* generate...PieChart call: push and show, or hide on NoDataError, or rethrow.
ChartBlock(p, r, column) ==
    IF r.error = "none"
    THEN [p EXCEPT !.liveCharts = @ \cup {r.chart},
                   !.hidden = showElements({column}, @),
                   !.pieCharts = Append(@, r.chart)]
    ELSE IF r.error = "NoDataError"
    THEN [p EXCEPT !.hidden = hideElements({column}, @),
                   !.noData = @ \cup {r.chart.dim}]
    ELSE [p EXCEPT !.thrown = TRUE]

\* Mutant of generateAmCharts: the race block has no catch, so its
\* NoDataError leaves the function before the sex block.
generateAmChartsRaceUncaught(cases, req, p) ==
    LET r == generateRacePieChart(cases, req)
    IN  IF r.error # "none" THEN [p EXCEPT !.thrown = TRUE]
        ELSE ChartBlock(ChartBlock(p, r, "divChartColRace"),
                        generateSexPieChart(cases, req), "divChartColSex")

generateAmCharts(cases, req, p) ==
    LET afterRace == ChartBlock(p, generateRacePieChart(cases, req), "divChartColRace")
    IN  IF afterRace.thrown THEN afterRace
        ELSE ChartBlock(afterRace, generateSexPieChart(cases, req), "divChartColSex")

\* Mutant of loadCasesByYear: the request is sent twice.
loadCasesByYearTwice(reqs, req, selectedYear) ==
    Append(Append(reqs, [run |-> req, year |-> selectedYear]),
           [run |-> req, year |-> selectedYear])

\* d3.json(url) for the year: run req sends one GET /api/v1.0/year/{year}.
loadCasesByYear(reqs, req, selectedYear) ==
    Append(reqs, [run |-> req, year |-> selectedYear])

\* Mutant of clearCharts: state.pieCharts is emptied without disposing.
clearChartsWithoutDispose(lc, pc) == lc

\* chart.dispose() on every element of state.pieCharts.
clearCharts(lc, pc) == lc \ { pc[i] : i \in 1..Len(pc) }

NoStep ==
    [kind |-> "none", run |-> 0, cases |-> << >>, noData |-> {}, thrown |-> FALSE,
     clicked |-> ""]

\* The script has run up to main()'s first await: the loading screen is
\* shown; the other elements are as the page's markup has them.
Init ==
    /\ year = ""
    /\ pieCharts = << >>
    /\ caseMarkers = EmptyObject
    /\ mapLayers = {}
    /\ liveCharts = {}
    /\ hidden \in SUBSET {"divChartRowList", "divChartColRace", "divChartColSex"}
    /\ selectOptions = <<Sentinel>>
    /\ selectValue = Sentinel
    /\ bound = FALSE
    /\ mainPc = "sleep"
    /\ runs = << >>
    /\ unhandled = {}
    /\ requests = << >>
    /\ lastStep = NoStep
    /\ lastSentinel = 0
    /\ tallyCases = << >>
    /\ raceStats = << >>
    /\ sexStats = << >>
    /\ tallyCalled = {}
    /\ windowRace = << >>
    /\ windowSex = << >>
    /\ markerCases = << >>
    /\ markerLayer = EmptyObject
    /\ markerCalled = FALSE

\* main() after showLoading's sleep: bind the handler, make the map, add the
\* street layer, request the years.
MainAfterSleep ==
    /\ mainPc = "sleep"
    /\ bound' = TRUE
    /\ mapLayers' = mapLayers \cup {StreetLayer}
    /\ mainPc' = "loadYears"
    /\ lastStep' = [NoStep EXCEPT !.kind = "main"]
    /\ UNCHANGED <<year, pieCharts, caseMarkers, liveCharts, hidden, selectOptions,
                   selectValue, runs, unhandled, lastSentinel, requests, tallyVars, markerVars>>

\* The years arrive: populateSelectYears, then finally hideLoading.
MainYearsLoaded ==
    /\ mainPc = "loadYears"
    /\ \E availableYears \in YearCatalogues :
           selectOptions' = selectOptions \o availableYears
    /\ hidden' = hideLoading(hidden)
    /\ mainPc' = "done"
    /\ lastStep' = [NoStep EXCEPT !.kind = "main"]
    /\ UNCHANGED <<year, pieCharts, caseMarkers, mapLayers, liveCharts, selectValue,
                   bound, runs, unhandled, lastSentinel, requests, tallyVars, markerVars>>

\* The request for the years fails: finally hideLoading, main() rejects.
MainYearsFailed ==
    /\ mainPc = "loadYears"
    /\ hidden' = hideLoading(hidden)
    /\ mainPc' = "rejected"
    /\ unhandled' = unhandled \cup {0}
    /\ lastStep' = [NoStep EXCEPT !.kind = "main"]
    /\ UNCHANGED <<year, pieCharts, caseMarkers, mapLayers, liveCharts, selectOptions,
                   selectValue, bound, runs, lastSentinel, requests, tallyVars, markerVars>>

\* The user picks another option of #selectYear.
SelectOption ==
    /\ \E i \in 1..Len(selectOptions) :
        /\ selectOptions[i] # selectValue
        /\ selectValue' = selectOptions[i]
    /\ lastStep' = [NoStep EXCEPT !.kind = "select"]
    /\ UNCHANGED <<year, pieCharts, caseMarkers, mapLayers, liveCharts, hidden,
                   selectOptions, bound, mainPc, runs, unhandled, lastSentinel, requests, tallyVars, markerVars>>

\* A click on #buttonApplySettings: onApplySettings up to showLoading's sleep.
\* Until it reads the select, the run remembers what the select held at the
\* click.
ClickApply ==
    /\ bound
    /\ Len(runs) < MaxClicks
    /\ hidden' = showLoading(hidden)
    /\ runs' = Append(runs, [pc |-> "sleep", year |-> "", overlapped |-> FALSE,
                             clicked |-> selectValue])
    /\ lastStep' = [NoStep EXCEPT !.kind = "click", !.run = Len(runs) + 1]
    /\ UNCHANGED <<year, pieCharts, caseMarkers, mapLayers, liveCharts, selectOptions,
                   selectValue, bound, mainPc, unhandled, lastSentinel, requests, tallyVars, markerVars>>

\* onApplySettings of run i after the sleep: hideChartRows, clearData, read
\* the select; with "None" finish through hideLoading, else send the request
\* for the cases of the selected year.  Equal timeouts fire in the order set.
ApplyAfterSleep(i) ==
    /\ runs[i].pc = "sleep"
    /\ \A j \in 1..(i - 1) : runs[j].pc # "sleep"
    /\ year' = ""
    /\ liveCharts' = clearCharts(liveCharts, pieCharts)
    /\ pieCharts' = << >>
    /\ mapLayers' = mapLayers \ {caseMarkers}
    /\ IF selectValue # Sentinel
       THEN /\ runs' = [j \in 1..Len(runs) |->
                          IF j = i
                          THEN [runs[i] EXCEPT
                                  !.pc = "fetch", !.year = selectValue, !.clicked = "",
                                  !.overlapped = \E k \in 1..Len(runs) : runs[k].pc = "fetch"]
                          ELSE IF runs[j].pc = "fetch"
                          THEN [runs[j] EXCEPT !.overlapped = TRUE]
                          ELSE runs[j]]
            /\ requests' = loadCasesByYear(requests, i, selectValue)
            /\ hidden' = hideChartRows(hidden)
            /\ UNCHANGED lastSentinel
       ELSE /\ runs' = [runs EXCEPT ![i].pc = "done", ![i].clicked = ""]
            /\ hidden' = hideLoading(hideChartRows(hidden))
            /\ lastSentinel' = i
            /\ UNCHANGED requests
    /\ lastStep' = [NoStep EXCEPT !.kind = "apply", !.run = i,
                                  !.clicked = runs[i].clicked]
    /\ UNCHANGED <<caseMarkers, selectOptions, selectValue, bound, mainPc, unhandled,
                   tallyVars, markerVars>>

\* The cases of run i's request arrive: updateCasesByYear adds the marker
\* layer and generates the charts (am4core.ready calls back at once, the
\* document being loaded); then state.year, showChartRows and, finally,
\* hideLoading.  An error thrown by generateAmCharts rejects the handler
\* before state.year is set.
CasesLoaded(i, cases) ==
    LET layer == createCaseClustersMarkers(cases, i)
        page == generateAmCharts(cases, i, PageCharts(pieCharts, liveCharts, hidden))
    IN  /\ runs[i].pc = "fetch"
        /\ mapLayers' = mapLayers \cup {layer}
        /\ caseMarkers' = layer
        /\ pieCharts' = page.pieCharts
        /\ liveCharts' = page.liveCharts
        /\ IF page.thrown
           THEN /\ hidden' = hideLoading(page.hidden)
                /\ runs' = [runs EXCEPT ![i].pc = "rejected"]
                /\ unhandled' = unhandled \cup {i}
                /\ UNCHANGED year
           ELSE /\ year' = runs[i].year
                /\ hidden' = hideLoading(showChartRows(page.hidden))
                /\ runs' = [runs EXCEPT ![i].pc = "done"]
                /\ UNCHANGED unhandled
        /\ lastStep' = [kind |-> "loaded", run |-> i, cases |-> cases,
                        noData |-> page.noData, thrown |-> page.thrown, clicked |-> ""]
        /\ UNCHANGED <<selectOptions, selectValue, bound, mainPc, lastSentinel, requests, tallyVars, markerVars>>

\* Run i's request fails: finally hideLoading, the handler rejects.
CasesFailed(i) ==
    /\ runs[i].pc = "fetch"
    /\ hidden' = hideLoading(hidden)
    /\ runs' = [runs EXCEPT ![i].pc = "rejected"]
    /\ unhandled' = unhandled \cup {i}
    /\ lastStep' = [NoStep EXCEPT !.kind = "failed", !.run = i]
    /\ UNCHANGED <<year, pieCharts, caseMarkers, mapLayers, liveCharts, selectOptions,
                   selectValue, bound, mainPc, lastSentinel, requests, tallyVars, markerVars>>

Next ==
    \/ MainAfterSleep
    \/ MainYearsLoaded
    \/ MainYearsFailed
    \/ SelectOption
    \/ ClickApply
    \/ \E i \in 1..Len(runs) : ApplyAfterSleep(i)
    \/ \E i \in 1..Len(runs) : \E cases \in CaseResponses : CasesLoaded(i, cases)
    \/ \E i \in 1..Len(runs) : CasesFailed(i)

Spec == Init /\ [][Next]_vars

\* The timers of sleep(300) fire: main() and every handler get past their
\* sleep.  Nothing makes a request settle.
FairSpec ==
    /\ Spec
    /\ WF_vars(MainAfterSleep)
    /\ WF_vars(\E i \in 1..Len(runs) : ApplyAfterSleep(i))

(***************************************************************************)
(* TallySpec: the tally functions on every case list up to MaxLen.         *)
(***************************************************************************)
\* Coordinates do not influence the tallies; the tally inputs carry one.
TallyRecords ==
    { SubjectCase(r, s, <<45>>, <<-93>>) : r \in RaceValues, s \in SexValues }
    \cup { NoForceCase(<<45>>, <<-93>>), NoSubjectCase(<<45>>, <<-93>>) }

TallyInputs == UNION { [1..n -> TallyRecords] : n \in 0..MaxLen }

TallyInit ==
    /\ tallyCases \in TallyInputs
    /\ raceStats = << >>
    /\ sexStats = << >>
    /\ tallyCalled = {}
    /\ windowRace = << >>
    /\ windowSex = << >>
    /\ markerCases = << >>
    /\ markerLayer = EmptyObject
    /\ markerCalled = FALSE
    /\ year = ""
    /\ pieCharts = << >>
    /\ caseMarkers = EmptyObject
    /\ mapLayers = {}
    /\ liveCharts = {}
    /\ hidden = {}
    /\ selectOptions = <<Sentinel>>
    /\ selectValue = Sentinel
    /\ bound = FALSE
    /\ mainPc = "sleep"
    /\ runs = << >>
    /\ unhandled = {}
    /\ requests = << >>
    /\ lastStep = NoStep
    /\ lastSentinel = 0

CallGetRaceData ==
    /\ "race" \notin tallyCalled
    /\ raceStats' = getRaceDataCall(tallyCases, windowRace).result
    /\ windowRace' = getRaceDataCall(tallyCases, windowRace).window
    /\ tallyCalled' = tallyCalled \cup {"race"}
    /\ UNCHANGED <<tallyCases, sexStats, windowSex, pageVars, markerVars>>

CallGetSexData ==
    /\ "sex" \notin tallyCalled
    /\ sexStats' = getSexDataCall(tallyCases, windowSex).result
    /\ windowSex' = getSexDataCall(tallyCases, windowSex).window
    /\ tallyCalled' = tallyCalled \cup {"sex"}
    /\ UNCHANGED <<tallyCases, raceStats, windowRace, pageVars, markerVars>>

TallyNext == CallGetRaceData \/ CallGetSexData

TallySpec == TallyInit /\ [][TallyNext]_vars

(***************************************************************************)
(* MarkerSpec: createCaseClustersMarkers on every case list up to MaxLen.  *)
(***************************************************************************)

Latitudes == { << >>, <<0>>, <<45>> }
Longitudes == { << >>, <<0>>, <<-93>> }

MarkerRecords ==
    { SubjectCase(<<"White">>, <<"Male">>, lat, lng) : lat \in Latitudes, lng \in Longitudes }
    \cup { NoForceCase(lat, lng) : lat \in Latitudes, lng \in Longitudes }

MarkerInputs == UNION { [1..n -> MarkerRecords] : n \in 0..MaxLen }

MarkerInit ==
    /\ markerCases \in MarkerInputs
    /\ markerLayer = EmptyObject
    /\ markerCalled = FALSE
    /\ tallyCases = << >>
    /\ raceStats = << >>
    /\ sexStats = << >>
    /\ tallyCalled = {}
    /\ windowRace = << >>
    /\ windowSex = << >>
    /\ year = ""
    /\ pieCharts = << >>
    /\ caseMarkers = EmptyObject
    /\ mapLayers = {}
    /\ liveCharts = {}
    /\ hidden = {}
    /\ selectOptions = <<Sentinel>>
    /\ selectValue = Sentinel
    /\ bound = FALSE
    /\ mainPc = "sleep"
    /\ runs = << >>
    /\ unhandled = {}
    /\ requests = << >>
    /\ lastStep = NoStep
    /\ lastSentinel = 0

CallCreateCaseClustersMarkers ==
    /\ ~markerCalled
    /\ markerLayer' = createCaseClustersMarkers(markerCases, 0)
    /\ markerCalled' = TRUE
    /\ UNCHANGED <<markerCases, pageVars, tallyVars>>

MarkerNext == CallCreateCaseClustersMarkers

MarkerSpec == MarkerInit /\ [][MarkerNext]_vars

(***************************************************************************)
(* RecallSpec: the tally functions called selection after selection, each  *)
(* call starting with the globals as the calls before left them.           *)
(***************************************************************************)

RecallRecords ==
    { SubjectCase(<<"White">>, <<"Male">>, <<45>>, <<-93>>),
      SubjectCase(<<"Black">>, << >>, <<45>>, <<-93>>),
      NoForceCase(<<45>>, <<-93>>),
      NoSubjectCase(<<45>>, <<-93>>) }

RecallInputs == UNION { [1..n -> RecallRecords] : n \in 0..MaxLen }

RecallInit ==
    /\ TallyInit
    /\ tallyCases \in RecallInputs

\* Another year is loaded: the tallies are asked for another case list.
NewSelection ==
    /\ tallyCalled = {"race", "sex"}
    /\ tallyCases' \in RecallInputs
    /\ tallyCalled' = {}
    /\ raceStats' = << >>
    /\ sexStats' = << >>
    /\ UNCHANGED <<windowRace, windowSex, pageVars, markerVars>>

RecallNext == CallGetRaceData \/ CallGetSexData \/ NewSelection

RecallSpec == RecallInit /\ [][RecallNext]_vars

(***************************************************************************)
(* Vocabulary of the properties.                                           *)
(***************************************************************************)

RECURSIVE SumCounts(_)
SumCounts(stats) ==
    IF stats = << >> THEN 0 ELSE Head(stats).count + SumCounts(Tail(stats))

\* The records with a force, a subject and a non-empty value of the field.
ValidRecords(cases, field) ==
    { i \in 1..Len(cases) :
        cases[i].hasForce /\ cases[i].hasSubject /\ TruthyString(cases[i][field]) }

\* The records the scan reaches: those before the first record that lacks a
\* force or a subject.
ScannedRecords(cases) ==
    { i \in 1..Len(cases) : \A j \in 1..i : cases[j].hasForce /\ cases[j].hasSubject }

\* The records the scan reaches that carry a non-empty value of the field.
CountedRecords(cases, field) == ScannedRecords(cases) \cap ValidRecords(cases, field)

CountedValues(cases, field) == { cases[i][field][1] : i \in CountedRecords(cases, field) }

\* The record in which a counted value is first seen.
FirstSeenAt(cases, field, value) ==
    CHOOSE i \in CountedRecords(cases, field) :
        /\ cases[i][field][1] = value
        /\ \A j \in CountedRecords(cases, field) : cases[j][field][1] = value => i <= j

\* stats lists each of values once, in first-seen order.
InFirstSeenOrder(stats, cases, field, values) ==
    /\ Len(stats) = Cardinality(values)
    /\ { stats[i][field] : i \in 1..Len(stats) } = values
    /\ \A i, j \in 1..Len(stats) :
           i < j => FirstSeenAt(cases, field, stats[i][field])
                      < FirstSeenAt(cases, field, stats[j][field])

\* stats lists each of values once with its number of counted records: the
\* array-index values first, ascending, then the others in first-seen order.
InPropertyOrder(stats, cases, field, values) ==
    /\ Len(stats) = Cardinality(values)
    /\ { stats[i][field] : i \in 1..Len(stats) } = values
    /\ \A i \in 1..Len(stats) :
           stats[i].count = Cardinality({ r \in CountedRecords(cases, field) :
                                            cases[r][field][1] = stats[i][field] })
    /\ \A i, j \in 1..Len(stats) :
           i < j =>
             LET a == stats[i][field]
                 b == stats[j][field]
             IN  /\ IsArrayIndex(b) => IsArrayIndex(a)
                 /\ IsArrayIndex(a) /\ IsArrayIndex(b)
                       => ArrayIndexValue[a] < ArrayIndexValue[b]
                 /\ ~IsArrayIndex(a) /\ ~IsArrayIndex(b)
                       => FirstSeenAt(cases, field, a) < FirstSeenAt(cases, field, b)

\* The cleared view: no case marker layer on the map, chart rows hidden, no
\* live chart instance, no year.
Cleared ==
    /\ ClusterLayers(mapLayers) = {}
    /\ "divChartRowList" \in hidden
    /\ liveCharts = {}
    /\ year = ""

FetchInFlight == \E i \in 1..Len(runs) : runs[i].pc = "fetch"

\* The step just taken completed the load of a year.
JustLoaded == lastStep.kind = "loaded" /\ ~lastStep.thrown

(***************************************************************************)
(* Properties.                                                             *)
(***************************************************************************)

\* C1: for each dimension, the counts of the tally returned sum to the number
\* of records that have a force, a subject and a non-empty value of the
\* field, a record without force or subject being skipped on its own.
\* Stated for the case lists without the label "__proto__", which the tally
\* never records: what is left to refute it is the scan alone.
C1_SumOfCountsIsValidRecords ==
    (\A i \in 1..Len(tallyCases) : tallyCases[i].race # <<"__proto__">>)
        => /\ "race" \in tallyCalled
                 => SumCounts(raceStats) = Cardinality(ValidRecords(tallyCases, "race"))
           /\ "sex" \in tallyCalled
                 => SumCounts(sexStats) = Cardinality(ValidRecords(tallyCases, "sex"))

\* C2: once the run of onApplySettings that read "None" has completed, and
\* until the next click, the view is cleared.
C2_SentinelLeavesViewCleared ==
    (lastSentinel # 0 /\ Len(runs) = lastSentinel) => Cleared

\* C3: the live chart instances all belong to one selection and are never
\* more than two.
C3_AtMostTwoLiveCharts ==
    /\ Cardinality(liveCharts) <= 2
    /\ \A c, d \in liveCharts : c.req = d.req

\* C4: after the load of a year whose case list is empty, both chart columns
\* are hidden and state.pieCharts is empty.
C4_EmptyYearNoCharts ==
    (JustLoaded /\ lastStep.cases = << >>)
        => /\ {"divChartColRace", "divChartColSex"} \subseteq hidden
           /\ pieCharts = << >>

\* C5 as claimed: the tally has one pair per counted value, in the order the
\* values are first seen, whatever the labels are.
C5_FirstSeenOrderForEveryLabel ==
    /\ "race" \in tallyCalled
          => InFirstSeenOrder(raceStats, tallyCases, "race",
                              CountedValues(tallyCases, "race"))
    /\ "sex" \in tallyCalled
          => InFirstSeenOrder(sexStats, tallyCases, "sex",
                              CountedValues(tallyCases, "sex"))

\* C5 amended: the tally has one pair, with its count, per counted value other
\* than "__proto__"; the values that are array indices come first in ascending
\* numeric order, the others follow in the order they are first seen.
C5_PairsInPropertyOrder ==
    /\ "race" \in tallyCalled
          => InPropertyOrder(raceStats, tallyCases, "race",
                             CountedValues(tallyCases, "race") \ {"__proto__"})
    /\ "sex" \in tallyCalled
          => InPropertyOrder(sexStats, tallyCases, "sex",
                             CountedValues(tallyCases, "sex") \ {"__proto__"})

\* C5 witness: "White", "2", "1" were seen in that order and tallied.
C5_IndexLabelsTallied ==
    /\ "race" \in tallyCalled
    /\ Len(tallyCases) = 3
    /\ tallyCases[1].race = <<"White">>
    /\ tallyCases[2].race = <<"2">>
    /\ tallyCases[3].race = <<"1">>
    /\ Len(raceStats) = 3

\* C6: when no record has a force, the load signals NoDataError for race and
\* for sex, hides both chart columns, throws nothing out of generateAmCharts
\* and the handler completes: the year is set, the chart rows shown, the
\* loading screen hidden.
C6_NoForceSignalsNoDataTwice ==
    (lastStep.kind = "loaded"
       /\ \A i \in 1..Len(lastStep.cases) : ~lastStep.cases[i].hasForce)
        => /\ getRaceData(lastStep.cases) = << >>
           /\ getSexData(lastStep.cases) = << >>
           /\ lastStep.noData = {"race", "sex"}
           /\ ~lastStep.thrown
           /\ {"divChartColRace", "divChartColSex"} \subseteq hidden
           /\ runs[lastStep.run].pc = "done"
           /\ lastStep.run \notin unhandled
           /\ year = runs[lastStep.run].year
           /\ "divChartRowList" \notin hidden
           /\ "divLoading" \in hidden

\* C6 witness: a list of cases, none with a force, has just been loaded.
C6_NoForceListLoaded ==
    /\ lastStep.kind = "loaded"
    /\ lastStep.cases # << >>
    /\ \A i \in 1..Len(lastStep.cases) : ~lastStep.cases[i].hasForce

\* C7: when requests overlapped and all have resolved, the view shows the
\* response that resolved last and nothing else: its year, its marker layer,
\* its charts.
C7_LastResolvingResponseWins ==
    (JustLoaded
       /\ runs[lastStep.run].overlapped
       /\ \A i \in 1..Len(runs) : runs[i].pc = "done")
        => /\ year = runs[lastStep.run].year
           /\ ClusterLayers(mapLayers)
                 = {createCaseClustersMarkers(lastStep.cases, lastStep.run)}
           /\ \A c \in liveCharts : c.req = lastStep.run

\* C8: while a request for cases is in flight the loading screen is shown.
C8_LoadingShownWhileFetching ==
    FetchInFlight => "divLoading" \notin hidden

\* C9: after the load of a year, a chart column is visible exactly when its
\* tally is non-empty, and state.pieCharts holds one chart per non-empty
\* tally.
C9_ColumnVisibleIffTallyNonEmpty ==
    JustLoaded
        => /\ ("divChartColRace" \notin hidden) <=> (getRaceData(lastStep.cases) # << >>)
           /\ ("divChartColSex" \notin hidden) <=> (getSexData(lastStep.cases) # << >>)
           /\ "divChartRowList" \notin hidden
           /\ Len(pieCharts)
                 = Cardinality({ d \in {"race", "sex"} : d \notin lastStep.noData })

\* C10: at most one case marker layer is on the map, and it is the one
\* state.caseMarkers refers to.
C10_OneTrackedMarkerLayer ==
    /\ Cardinality(ClusterLayers(mapLayers)) <= 1
    /\ \A l \in ClusterLayers(mapLayers) : l = caseMarkers

\* C11: while a request for cases is in flight, the previous charts are
\* disposed and the previous marker layer is removed: the view is cleared.
C11_ClearedWhileFetching ==
    FetchInFlight => Cleared

\* C12: a failed request is not swallowed.  When the years fail, main()
\* rejects and the loading screen is hidden; when the cases of run i fail,
\* the handler rejects, the loading screen is hidden and the view is left
\* cleared, with no marker layer of run i on the map.
C12_FailedFetchRejectsAndLeavesCleared ==
    /\ (lastStep.kind = "main" /\ mainPc = "rejected")
          => 0 \in unhandled /\ "divLoading" \in hidden
    /\ lastStep.kind = "failed"
          => /\ lastStep.run \in unhandled
             /\ runs[lastStep.run].pc = "rejected"
             /\ "divLoading" \in hidden
             /\ year = ""
             /\ liveCharts = {}
             /\ "divChartRowList" \in hidden
             /\ \A l \in ClusterLayers(mapLayers) : l.req # lastStep.run

\* The requests run i has sent.
RequestsOf(i) == { k \in 1..Len(requests) : requests[k].run = i }

RunCompleted(i) == runs[i].pc \in {"done", "rejected"}

\* C13 as claimed: a run that has read the select has sent exactly one
\* request, for the year selected when its button was clicked, and none if the
\* select held "None" at the click.
C13_OneRequestForClickedYear ==
    lastStep.kind = "apply" =>
        IF lastStep.clicked # Sentinel
        THEN /\ Cardinality(RequestsOf(lastStep.run)) = 1
             /\ \A k \in RequestsOf(lastStep.run) : requests[k].year = lastStep.clicked
        ELSE RequestsOf(lastStep.run) = {}

\* C13 amended: a run past its sleep has sent exactly one request, for the
\* year the select held when the run read it after the sleep, whether the
\* request succeeds or fails, and none if the select then held "None"; a run
\* still in its sleep has sent none.
C13_OneRequestForYearRead ==
    \A i \in 1..Len(runs) :
        /\ runs[i].pc = "sleep" => RequestsOf(i) = {}
        /\ (runs[i].pc # "sleep" /\ runs[i].year # "")
              => /\ Cardinality(RequestsOf(i)) = 1
                 /\ \A k \in RequestsOf(i) : requests[k].year = runs[i].year
                 /\ runs[i].year # Sentinel
        /\ (runs[i].pc # "sleep" /\ runs[i].year = "")
              => RequestsOf(i) = {} /\ runs[i].pc = "done"

\* C13 witness: a run whose request failed, a run that read "None", and one
\* request in all.
C13_FailedAndSentinelRuns ==
    /\ Len(runs) = 2
    /\ \E i, j \in 1..2 :
          /\ runs[i].pc = "rejected"
          /\ runs[j].pc = "done" /\ runs[j].year = ""
    /\ Len(requests) = 1

\* C14: the tally returned depends on the case list alone: whatever the
\* earlier selections and calls left behind, a call returns what a call on a
\* fresh page returns for the same list, and that is the counted records of
\* this list, value by value.
C14_TallyDependsOnCaseListOnly ==
    /\ "race" \in tallyCalled
          => /\ raceStats = getRaceDataCall(tallyCases, << >>).result
             /\ SumCounts(raceStats) = Cardinality(CountedRecords(tallyCases, "race"))
    /\ "sex" \in tallyCalled
          => /\ sexStats = getSexDataCall(tallyCases, << >>).result
             /\ SumCounts(sexStats) = Cardinality(CountedRecords(tallyCases, "sex"))

\* C14 witness: getRaceData has returned a tally of two values for a
\* selection whose sex tally is not asked for yet, while the global sex still
\* holds a value of an earlier selection.
C14_TalliedAfterEarlierSelection ==
    /\ tallyCalled = {"race"}
    /\ windowSex # << >>
    /\ Len(raceStats) = 2

\* The records before the first record that lacks a force or a subject.
ScannedPrefix(cases) == SubSeq(cases, 1, Cardinality(ScannedRecords(cases)))

\* C15: the scan stops at the first record without force or subject: the
\* tally is the tally of the records before it, and its counts sum to the
\* number of those records that carry a value (other than "__proto__", which
\* is never recorded); the records after it contribute nothing.
C15_TallyOfScannedPrefix ==
    /\ "race" \in tallyCalled
          => /\ raceStats = getRaceData(ScannedPrefix(tallyCases))
             /\ SumCounts(raceStats)
                   = Cardinality({ i \in CountedRecords(tallyCases, "race") :
                                     tallyCases[i].race # <<"__proto__">> })
    /\ "sex" \in tallyCalled
          => /\ sexStats = getSexData(ScannedPrefix(tallyCases))
             /\ SumCounts(sexStats) = Cardinality(CountedRecords(tallyCases, "sex"))

\* C15 witness: a record without force stands between two records with a
\* race, and the tally holds the first one only.
C15_ScanStoppedBeforeValidRecord ==
    /\ "race" \in tallyCalled
    /\ Len(tallyCases) = 3
    /\ tallyCases[1].race = <<"White">>
    /\ ~tallyCases[2].hasForce
    /\ tallyCases[3].hasSubject /\ tallyCases[3].race = <<"Black">>
    /\ raceStats = <<[race |-> "White", count |-> 1]>>

\* C16: every live chart instance is an element of state.pieCharts, and
\* after clearData has run no chart is live and state.pieCharts is empty.
C16_LiveChartsAreTracked ==
    /\ liveCharts \subseteq { pieCharts[i] : i \in 1..Len(pieCharts) }
    /\ lastStep.kind = "apply" => liveCharts = {} /\ pieCharts = << >>

\* C16 witness: the charts of two overlapping responses are live.
C16_ChartsOfTwoResponsesLive ==
    /\ Cardinality(liveCharts) > 2
    /\ \E c, d \in liveCharts : c.req # d.req

\* main() and every handler have run to their end.
AllSettled ==
    /\ mainPc \in {"done", "rejected"}
    /\ \A i \in 1..Len(runs) : RunCompleted(i)

\* Run i has just run to its end and the loading screen is hidden.
RunHidLoading(i) ==
    /\ Len(runs) >= i
    /\ RunCompleted(i)
    /\ lastStep.run = i
    /\ lastStep.kind \in {"apply", "loaded", "failed"}
    /\ "divLoading" \in hidden

\* Run i has been started by a click and has not run to its end.
RunPending(i) == Len(runs) >= i /\ ~RunCompleted(i)

\* Run i waits for its request.
RunAwaitsFetch(i) == Len(runs) >= i /\ runs[i].pc = "fetch"

\* C17: every click leads to its run hiding the loading screen, unless its
\* request never settles; and whenever main() and all handlers have run to
\* their end the loading screen is hidden.
C17_LoadingHiddenOnceSettled ==
    /\ [](AllSettled => "divLoading" \in hidden)
    /\ \A i \in 1..MaxClicks :
          RunPending(i) ~> (RunHidLoading(i) \/ [](RunAwaitsFetch(i)))

\* C17 witness: everything has settled after a request that failed and a
\* request that succeeded.
C17_SettledAfterFailureAndSuccess ==
    /\ AllSettled
    /\ \E i, j \in 1..Len(runs) : runs[i].pc = "rejected" /\ runs[j].pc = "done"
                                     /\ runs[j].year # ""

\* The cases whose latitude and longitude are both given and not 0.
LocatedCases(cases) ==
    { i \in 1..Len(cases) :
        /\ cases[i].latitude \notin { << >>, <<0>> }
        /\ cases[i].longitude \notin { << >>, <<0>> } }

\* The k-th located case.
KthLocated(cases, k) ==
    CHOOSE i \in LocatedCases(cases) :
        Cardinality({ j \in LocatedCases(cases) : j < i }) = k - 1

\* The case list with every force removed.
WithoutForce(cases) ==
    [i \in 1..Len(cases) |-> NoForceCase(cases[i].latitude, cases[i].longitude)]

\* C18: the layer returned holds one marker per located case, at its
\* position and in the order of the cases, and no other marker; it is the
\* layer the same cases give without their force data.
C18_OneMarkerPerLocatedCase ==
    markerCalled
        => /\ Len(markerLayer.markers) = Cardinality(LocatedCases(markerCases))
           /\ \A k \in 1..Len(markerLayer.markers) :
                 markerLayer.markers[k]
                    = << markerCases[KthLocated(markerCases, k)].latitude[1],
                         markerCases[KthLocated(markerCases, k)].longitude[1] >>
           /\ markerLayer = createCaseClustersMarkers(WithoutForce(markerCases), 0)

\* C18 witness: of a case with latitude 0, a case without longitude and a
\* located case, only the last one has a marker.
C18_OnlyLocatedCaseMarked ==
    /\ markerCalled
    /\ Len(markerCases) = 3
    /\ markerCases[1].latitude = <<0>> /\ markerCases[1].longitude = <<-93>>
    /\ markerCases[2].latitude = <<45>> /\ markerCases[2].longitude = << >>
    /\ markerCases[3].latitude = <<45>> /\ markerCases[3].longitude = <<-93>>
    /\ markerCases[3].hasForce
    /\ markerLayer.markers = << <<45, -93>> >>

====
